---- MODULE Spec2Model ----
(***************************************************************************)
(* Model of the spotify-me backend (src/main.rs): the fill-once top-tracks *)
(* cache behind GET /, the GET /playing and GET /recent handlers and the   *)
(* track shaping function full_track_to_simple.                            *)
(***************************************************************************)
EXTENDS Integers, Sequences, FiniteSets, TLC

VARIABLES
    cache,        \* DATA_CACHE: OnceLock<Data>, None or Some(Data)
    pc,           \* per request slot: position of the `data` handler
    fetch,        \* per request slot: the three joined top_for_time_frame futures
    built,        \* per request slot: the Data value the handler built (a local)
    response,     \* GET /: the last response, with the path the handler took
    firstFill,    \* history: the value DATA_CACHE held when it first became filled
    firstSet,     \* history: the first execution of DATA_CACHE.set
    playback,     \* GET /playing: what the upstream returned to the last request
    playingRes,   \* GET /playing: the last response
    history,      \* GET /recent: what the upstream returned to the request
    recentRes,    \* GET /recent: the response
    shapeIn,      \* full_track_to_simple: the FullTrack given
    shapeOut      \* full_track_to_simple: the SimpleTrack returned

dataVars == <<cache, pc, fetch, built, response, firstFill, firstSet>>
playingVars == <<playback, playingRes>>
recentVars == <<history, recentRes>>
shapeVars == <<shapeIn, shapeOut>>
vars == <<cache, pc, fetch, built, response, firstFill, firstSet,
          playback, playingRes, history, recentRes, shapeIn, shapeOut>>

(***************************************************************************)
(* Bounds of the model.                                                    *)
(***************************************************************************)
NumRequests == 2
MaxRecent == 3

(***************************************************************************)
(* Program constants.                                                      *)
(***************************************************************************)
TopLimit == 10
RecentLimit == 10
DataMaxAgeSecs == 86400
RecentMaxAgeSecs == 180
MillisPerSec == 1000

(***************************************************************************)
(* Option<T>: None is the empty sequence, Some(x) a one-element sequence.  *)
(***************************************************************************)
None == <<>>
Some(x) == <<x>>
IsSome(o) == Len(o) = 1
Unwrap(o) == o[1]

(***************************************************************************)
(* 64-bit and 32-bit integers as two limbs <<hi, lo>> of value             *)
(* hi * 2^16 + lo with lo in 0 .. 2^16 - 1, so that values beyond 2^31    *)
(* (a duration of 2^32 seconds in milliseconds) are computed exactly.      *)
(***************************************************************************)
LimbBase == 2 ^ 16
Limbs(n) == <<n \div LimbBase, n % LimbBase>>
LimbsNeg(x) == x[1] < 0
LimbsSucc(x) == IF x[2] = LimbBase - 1 THEN <<x[1] + 1, 0>> ELSE <<x[1], x[2] + 1>>
LimbsFloorDiv(x, d) ==
    LET t == (x[1] % d) * LimbBase + x[2]
    IN  <<x[1] \div d, t \div d>>
LimbsMod(x, d) == ((x[1] % d) * LimbBase + x[2]) % d

\* chrono's Duration::num_seconds: whole seconds, rounded towards zero
NumSeconds(ms) ==
    LET q == LimbsFloorDiv(ms, MillisPerSec)
    IN  IF LimbsNeg(ms) /\ LimbsMod(ms, MillisPerSec) > 0 THEN LimbsSucc(q) ELSE q

\* `as u32` on an i64: the value modulo 2^32
AsU32(x) == <<x[1] % LimbBase, x[2]>>

(***************************************************************************)
(* Sequence helpers.                                                       *)
(***************************************************************************)
Take(s, n) == IF Len(s) <= n THEN s ELSE SubSeq(s, 1, n)
\* HashMap::get(key).cloned() on a map kept as a set of <<key, value>> pairs
MapGet(m, k) ==
    LET vs == {p[2] : p \in {q \in m : q[1] = k}}
    IN  IF vs = {} THEN None ELSE Some(CHOOSE v \in vs : TRUE)

(***************************************************************************)
(* Response shaping (full_track_to_simple).                                *)
(***************************************************************************)
SimpleArtistOf(artist) ==
    [name |-> artist.name, url |-> MapGet(artist.external_urls, "spotify")]

FirstImageUrl(images) == IF images = <<>> THEN None ELSE Some(images[1].url)

DurationSecs(duration) == AsU32(NumSeconds(duration))

full_track_to_simple(full_track) ==
    [name      |-> full_track.name,
     artists   |-> [i \in 1..Len(full_track.artists) |-> SimpleArtistOf(full_track.artists[i])],
     image_url |-> FirstImageUrl(full_track.album.images),
     url       |-> MapGet(full_track.external_urls, "spotify"),
     duration  |-> DurationSecs(full_track.duration)]

(***************************************************************************)
(* Sample upstream records.                                                *)
(***************************************************************************)
SpotifyUrl(u) == {<<"spotify", u>>}
ArtistA == [name |-> "Artist A", external_urls |-> SpotifyUrl("artist/a")]
ArtistB == [name |-> "Artist B", external_urls |-> {}]
Image1 == [url |-> "img/1"]
Image2 == [url |-> "img/2"]
FullTrack(n, as, im, u, d) ==
    [name |-> n, artists |-> as, album |-> [images |-> im],
     external_urls |-> u, duration |-> d]

\* durations in milliseconds: ordinary ones, the ones around the 2^32-second
\* wrap of the u32 cast, and negative ones
DurationSamples ==
    {Limbs(0), Limbs(999), Limbs(1000), Limbs(1999), Limbs(215000),
     <<LimbBase * MillisPerSec - 1, LimbBase - 1>>,
     <<LimbBase * MillisPerSec, 0>>,
     <<LimbBase * MillisPerSec, 1500>>,
     Limbs(-1), Limbs(-1000), Limbs(-1500)}

ShapeInputs ==
    {FullTrack(n, as, im, u, d) :
        n \in {"Song A", "Song B"},
        as \in {<<>>, <<ArtistA>>, <<ArtistA, ArtistB>>},
        im \in {<<>>, <<Image1>>, <<Image1, Image2>>},
        u \in {{}, SpotifyUrl("track/x")},
        d \in DurationSamples}

TrackA == FullTrack("Song A", <<ArtistA>>, <<Image1>>, SpotifyUrl("track/a"), Limbs(215000))
TrackB == FullTrack("Song B", <<ArtistA, ArtistB>>, <<>>, {}, Limbs(61999))

(***************************************************************************)
(* Initial values of each handler's variables.                             *)
(***************************************************************************)
Requests == 1..NumRequests
Windows == {"ShortTerm", "MediumTerm", "LongTerm"}
NotStarted == [st |-> "none", tracks |-> <<>>]
Pending == [st |-> "pending", tracks |-> <<>>]

DataInit ==
    /\ cache = None
    /\ pc = [r \in Requests |-> "idle"]
    /\ fetch = [r \in Requests |-> [w \in Windows |-> NotStarted]]
    /\ built = [r \in Requests |-> None]
    /\ response = None
    /\ firstFill = None
    /\ firstSet = None

PlayingInit == playback = None /\ playingRes = None
RecentInit == history = None /\ recentRes = None
ShapeIdle == shapeIn = None /\ shapeOut = None

\* no request has been served yet
Init == DataInit /\ PlayingInit /\ RecentInit /\ ShapeIdle

(***************************************************************************)
(* The shaping function applied to one track.                              *)
(***************************************************************************)
ShapeInit ==
    /\ DataInit /\ PlayingInit /\ RecentInit
    /\ shapeIn \in {Some(t) : t \in ShapeInputs}
    /\ shapeOut = None

ShapeTrack ==
    /\ shapeOut = None
    /\ shapeOut' = Some(full_track_to_simple(Unwrap(shapeIn)))
    /\ UNCHANGED <<shapeIn, dataVars, playingVars, recentVars>>

ShapeNext == ShapeTrack
SpecShape == ShapeInit /\ [][ShapeNext]_vars

\* C7: for all tracks T, the shaped duration equals floor(T.durationMillis / 1000)
\* and is a non-negative number of seconds.
C7_DurationIsFloor ==
    IsSome(shapeOut) =>
        /\ Unwrap(shapeOut).duration = LimbsFloorDiv(Unwrap(shapeIn).duration, MillisPerSec)
        /\ ~LimbsNeg(Unwrap(shapeOut).duration)

(***************************************************************************)
(* HTTP responses.  A handler returns Ok(Response) with a JSON body and    *)
(* possibly a cache-control header, Err(String), or panics.                *)
(***************************************************************************)
MaxAge(secs) == [no_cache |-> FALSE, no_store |-> FALSE, max_age |-> Some(secs)]
NoCacheNoStore == [no_cache |-> TRUE, no_store |-> TRUE, max_age |-> None]

OkResponse(json, cacheControl) ==
    [status |-> "ok", body |-> Some(json), error |-> None, cacheControl |-> cacheControl]
ErrResponse(msg) ==
    [status |-> "err", body |-> None, error |-> Some(msg), cacheControl |-> None]
Panicked ==
    [status |-> "panic", body |-> None, error |-> None, cacheControl |-> None]

\* serde, rename_all = "camelCase"
JsonArtist(a) == [name |-> a.name, url |-> a.url]
JsonTrack(t) ==
    [name |-> t.name, artists |-> [i \in 1..Len(t.artists) |-> JsonArtist(t.artists[i])],
     imageUrl |-> t.image_url, url |-> t.url, duration |-> t.duration]
JsonData(d) ==
    [shortTermTop |-> [i \in 1..Len(d.short_term_top) |-> JsonTrack(d.short_term_top[i])],
     midTermTop   |-> [i \in 1..Len(d.mid_term_top) |-> JsonTrack(d.mid_term_top[i])],
     longTermTop  |-> [i \in 1..Len(d.long_term_top) |-> JsonTrack(d.long_term_top[i])]]
JsonPlaying(p) ==
    [device |-> p.device, context |-> p.context, repeat |-> p.repeat,
     shuffled |-> p.shuffled, playing |-> JsonTrack(p.playing),
     progressSecs |-> p.progress_secs]
\* Option<Playing>: None serializes to null
JsonOptionPlaying(o) ==
    IF IsSome(o) THEN [isNull |-> FALSE, value |-> Some(JsonPlaying(Unwrap(o)))]
    ELSE [isNull |-> TRUE, value |-> None]
JsonLastPlayed(l) ==
    [track |-> JsonTrack(l.track), context |-> l.context, playedAt |-> l.played_at]

\* what an upstream call gave: Ok(value) or Err(e), e.to_string() kept
UpstreamOk(v) == [st |-> "ok", value |-> Some(v), error |-> None]
UpstreamErr == [st |-> "err", value |-> None, error |-> Some("upstream error")]
NotCalled == [st |-> "none", value |-> None, error |-> None]

(***************************************************************************)
(* GET /playing (currently_playing).                                       *)
(***************************************************************************)
ContextA == [type |-> "playlist", uri |-> "playlist/1"]
DeviceA == [name |-> "Phone"]
TrackItem(id) == [kind |-> "track", id |-> id]
EpisodeItem == [kind |-> "episode", id |-> Some("episode/1")]

PlaybackContexts ==
    [is_playing : BOOLEAN,
     item : {None, Some(TrackItem(Some("track/a"))), Some(TrackItem(None)), Some(EpisodeItem)},
     device : {DeviceA},
     context : {None, Some(ContextA)},
     progress : {None, Some(Limbs(0)), Some(Limbs(61999))},
     repeat_state : {"off", "track", "context"},
     shuffle_state : BOOLEAN]

\* results of current_playback: an error, no playback snapshot, or a snapshot
PlaybackResults ==
    {UpstreamErr, UpstreamOk(None)} \cup {UpstreamOk(Some(cp)) : cp \in PlaybackContexts}
\* results of the track lookup
TrackResults == {UpstreamErr, UpstreamOk(TrackA), UpstreamOk(TrackB)}

\* PlayableItem::id()
PlayableIdOf(item) == item.id

\* whether the handler gets as far as spotify.track(track_id)
TrackLookupCalled(cur) ==
    /\ cur.st = "ok"
    /\ IsSome(Unwrap(cur.value))
    /\ LET cp == Unwrap(Unwrap(cur.value))
       IN  /\ cp.is_playing
           /\ IsSome(cp.item)
           /\ IsSome(PlayableIdOf(Unwrap(cp.item)))
           /\ Unwrap(cp.item).kind = "track"

PlayingOf(cp, full_track) ==
    [device        |-> cp.device,
     context       |-> cp.context,
     playing       |-> full_track_to_simple(full_track),
     progress_secs |-> AsU32(NumSeconds(Unwrap(cp.progress))),
     repeat        |-> cp.repeat_state,
     shuffled      |-> cp.shuffle_state]

currently_playing(cur, trk) ==
    IF cur.st = "err" THEN ErrResponse(Unwrap(cur.error))
    ELSE IF ~IsSome(Unwrap(cur.value)) THEN OkResponse(JsonOptionPlaying(None), None)
    ELSE LET cp == Unwrap(Unwrap(cur.value)) IN
        IF ~cp.is_playing THEN OkResponse(JsonOptionPlaying(None), None)
        ELSE IF ~IsSome(cp.item) THEN Panicked                       \* item.unwrap()
        ELSE IF ~IsSome(PlayableIdOf(Unwrap(cp.item))) THEN Panicked \* id().unwrap()
        ELSE IF Unwrap(cp.item).kind = "episode" THEN Panicked       \* unreachable!
        ELSE IF trk.st = "err" THEN ErrResponse(Unwrap(trk.error))
        ELSE IF ~IsSome(cp.progress) THEN Panicked                   \* progress.unwrap()
        ELSE OkResponse(JsonOptionPlaying(Some(PlayingOf(cp, Unwrap(trk.value)))),
                        Some(NoCacheNoStore))

CurrentlyPlaying ==
    \E cur \in PlaybackResults :
        \E trk \in (IF TrackLookupCalled(cur) THEN TrackResults ELSE {NotCalled}) :
            /\ playback' = Some([current |-> cur, track |-> trk])
            /\ playingRes' = Some(currently_playing(cur, trk))
            /\ UNCHANGED <<dataVars, recentVars, shapeVars>>

PlayingNext == CurrentlyPlaying
SpecPlaying == Init /\ [][PlayingNext]_vars

\* the playback snapshot the last GET /playing request saw, if any
LastSnapshot == Unwrap(playback).current.value
NotActiveOrNoItem ==
    /\ Unwrap(playback).current.st = "ok"
    /\ \/ ~IsSome(Unwrap(LastSnapshot))
       \/ ~Unwrap(Unwrap(LastSnapshot)).is_playing
       \/ ~IsSome(Unwrap(Unwrap(LastSnapshot)).item)
IsNullResponse(res) ==
    res.status = "ok" /\ Unwrap(res.body).isNull
IsPlayingResponse(res) ==
    res.status = "ok" /\ ~Unwrap(res.body).isNull

\* C5: GET /playing returns a successful null for every upstream state in which
\* isPlaying is false or no item is present, and builds a PlayingState only when
\* playback is active and an item is present.
C5_NullWhenNotPlayingOrNoItem ==
    IsSome(playingRes) =>
        /\ NotActiveOrNoItem => IsNullResponse(Unwrap(playingRes))
        /\ IsPlayingResponse(Unwrap(playingRes)) =>
              /\ IsSome(Unwrap(LastSnapshot))
              /\ Unwrap(Unwrap(LastSnapshot)).is_playing
              /\ IsSome(Unwrap(Unwrap(LastSnapshot)).item)

\* C6: every successful GET /playing response carries no-cache, no-store, with a
\* PlayingState body and with a null body alike.
C6_PlayingNeverCached ==
    (IsSome(playingRes) /\ Unwrap(playingRes).status = "ok") =>
        Unwrap(playingRes).cacheControl = Some(NoCacheNoStore)

(***************************************************************************)
(* GET /recent (recently_played).                                          *)
(***************************************************************************)
PlayHistory(t, c, at) == [track |-> t, context |-> c, played_at |-> at]
HistorySamples ==
    {PlayHistory(TrackA, None, 3), PlayHistory(TrackB, Some(ContextA), 1),
     PlayHistory(TrackA, Some(ContextA), 2), PlayHistory(TrackB, None, 2),
     PlayHistory(TrackB, Some(ContextA), 4)}

SeqsUpTo(S, n) == UNION {[1..k -> S] : k \in 0..n}

\* results of current_user_recently_played(Some(10), ..): an error, or a page of
\* at most the asked number of entries, in any order
HistoryResults ==
    {UpstreamErr} \cup
    {UpstreamOk(items) : items \in {s \in SeqsUpTo(HistorySamples, MaxRecent) :
                                       Len(s) <= RecentLimit}}

\* Ord::cmp
Cmp(x, y) == IF x < y THEN "Less" ELSE IF x > y THEN "Greater" ELSE "Equal"

\* a reversed closure: |a, b| a.played_at.cmp(&b.played_at)
MostRecentLast(a, b) == Cmp(a.played_at, b.played_at)
\* the closure given to sort_unstable_by: |a, b| b.played_at.cmp(&a.played_at)
MostRecentFirst(a, b) == Cmp(b.played_at, a.played_at)

Bijections(n) == {f \in [1..n -> 1..n] : \A i, j \in 1..n : i # j => f[i] # f[j]}
Rearranged(s, f) == [i \in 1..Len(s) |-> s[f[i]]]

\* recent.sort_unstable_by(most recent first): the elements in an order the
\* comparison accepts; the order of elements that compare Equal is not
\* specified, so every such order is an outcome
SortUnstableBy(s) ==
    {q \in {Rearranged(s, f) : f \in Bijections(Len(s))} :
        \A i \in 1..(Len(s) - 1) : MostRecentFirst(q[i], q[i + 1]) # "Greater"}

LastPlayedOf(his) ==
    [track     |-> full_track_to_simple(his.track),
     context   |-> his.context,
     played_at |-> his.played_at]

RecentBody(recent) == [i \in 1..Len(recent) |-> JsonLastPlayed(LastPlayedOf(recent[i]))]

RecentlyPlayed ==
    \E res \in HistoryResults :
        /\ recentRes = None
        /\ history' = Some(res)
        /\ IF res.st = "err"
           THEN recentRes' = Some(ErrResponse(Unwrap(res.error)))
           ELSE \E recent \in SortUnstableBy(Unwrap(res.value)) :
                    recentRes' = Some(OkResponse(RecentBody(recent),
                                                 Some(MaxAge(RecentMaxAgeSecs))))
        /\ UNCHANGED <<dataVars, playingVars, shapeVars>>

\* the response is sent; the handler is free to serve the next request
RecentResponseSent ==
    /\ recentRes # None
    /\ history' = None
    /\ recentRes' = None
    /\ UNCHANGED <<dataVars, playingVars, shapeVars>>

RecentNext == RecentlyPlayed \/ RecentResponseSent
SpecRecent == Init /\ [][RecentNext]_vars

IsPermutationOf(a, b) ==
    /\ Len(a) = Len(b)
    /\ \E f \in Bijections(Len(a)) : \A i \in 1..Len(a) : a[i] = b[f[i]]

\* C4: every successful GET /recent response is sorted by playedAt descending and
\* is a permutation of the entries the upstream returned, whatever their order.
C4_RecentSortedDescending ==
    (IsSome(recentRes) /\ Unwrap(recentRes).status = "ok") =>
        LET body == Unwrap(Unwrap(recentRes).body)
            upstream == Unwrap(Unwrap(history).value)
        IN  /\ \A i \in 1..(Len(body) - 1) : body[i].playedAt >= body[i + 1].playedAt
            /\ IsPermutationOf(body, RecentBody(upstream))

\* a response to an upstream page that came oldest-first, with two entries of
\* the same timestamp in it
C4_Witness ==
    /\ IsSome(recentRes) /\ Unwrap(recentRes).status = "ok"
    /\ LET body == Unwrap(Unwrap(recentRes).body)
           upstream == Unwrap(Unwrap(history).value)
       IN  /\ Len(upstream) = 3
           /\ upstream[1].played_at < upstream[2].played_at
           /\ upstream[2].played_at = upstream[3].played_at
           /\ body[1].playedAt = upstream[3].played_at
           /\ body[3].playedAt = upstream[1].played_at

(***************************************************************************)
(* GET / (data) and the top-tracks cache.                                  *)
(***************************************************************************)
\* what current_user_top_tracks(Some(time_frame)) streams: tracks, or an error in
\* place of one; the lists of the short and the long window change between calls
TopStreams(time_frame) ==
    {<<UpstreamOk(TrackA)>>, <<UpstreamErr>>} \cup
    (IF time_frame = "MediumTerm" THEN {} ELSE {<<UpstreamOk(TrackB), UpstreamOk(TrackA)>>})

\* top_for_time_frame: top_stream.take(num).try_collect().await
top_for_time_frame(top_stream, num) ==
    LET taken == Take(top_stream, num)
    IN  IF \E i \in 1..Len(taken) : taken[i].st = "err"
        THEN [st |-> "err", tracks |-> <<>>]
        ELSE [st |-> "ok", tracks |-> [i \in 1..Len(taken) |-> Unwrap(taken[i].value)]]

\* a join that gives up at the first failed future
JoinUntilError(f) ==
    \/ \E w \in Windows : f[w].st = "err"
    \/ \A w \in Windows : f[w].st = "ok"
\* join!: ready once every one of the three futures has completed
JoinReady(f) == \A w \in Windows : f[w].st \in {"ok", "err"}

\* a chain of `?` that looks at the first result only
ShortTermErrorOnly(f) ==
    IF f["ShortTerm"].st = "err" THEN Some("upstream error") ELSE None
\* short_term_full?, mid_term_full?, long_term_full?: the first error, in that order
FirstError(f) ==
    IF f["ShortTerm"].st = "err" THEN Some("upstream error")
    ELSE IF f["MediumTerm"].st = "err" THEN Some("upstream error")
    ELSE IF f["LongTerm"].st = "err" THEN Some("upstream error")
    ELSE None

\* .into_iter().map(full_track_to_simple).collect()
ShapeAll(tracks) == [i \in 1..Len(tracks) |-> full_track_to_simple(tracks[i])]

BuildData(f) ==
    [short_term_top |-> ShapeAll(f["ShortTerm"].tracks),
     mid_term_top   |-> ShapeAll(f["MediumTerm"].tracks),
     long_term_top  |-> ShapeAll(f["LongTerm"].tracks)]

\* a cell whose set always stores
SetOverwrites(cell, value) == Some(value)
\* OnceLock::set: stores the value only into an empty cell
OnceLockSet(cell, value) == IF IsSome(cell) THEN cell ELSE Some(value)

\* a handler that never takes the cached branch
NeverCached(cell) == FALSE
\* if let Some(data) = DATA_CACHE.get()
CacheIsFilled(cell) == IsSome(cell)

CachedResponse(data) == OkResponse(JsonData(data), Some(MaxAge(DataMaxAgeSecs)))

\* a handler that answers with the Data it built itself
OwnDataResponse(r) == CachedResponse(Unwrap(built[r]))
\* Json(DATA_CACHE.get().unwrap()) with the cache header
ReadBackResponse(r) ==
    IF IsSome(cache) THEN CachedResponse(Unwrap(cache)) ELSE Panicked

ClearLocals(r) ==
    /\ fetch' = [fetch EXCEPT ![r] = [w \in Windows |-> NotStarted]]
    /\ built' = [built EXCEPT ![r] = None]

\* lines 75-82: the cache is filled, the stored snapshot is returned
DataHit(r) ==
    /\ pc[r] = "idle"
    /\ CacheIsFilled(cache)
    /\ response' = Some([path |-> "cached", lostRace |-> FALSE,
                         res |-> CachedResponse(Unwrap(cache))])
    /\ UNCHANGED <<cache, pc, fetch, built, firstFill, firstSet>>
    /\ UNCHANGED <<playingVars, recentVars, shapeVars>>

\* lines 76, 84-88: the cache is empty, the three fetches are started
DataMiss(r) ==
    /\ pc[r] = "idle"
    /\ ~CacheIsFilled(cache)
    /\ fetch' = [fetch EXCEPT ![r] = [w \in Windows |-> Pending]]
    /\ pc' = [pc EXCEPT ![r] = "join"]
    /\ UNCHANGED <<cache, built, response, firstFill, firstSet>>
    /\ UNCHANGED <<playingVars, recentVars, shapeVars>>

\* one of the three joined futures completes
FetchDone(r) ==
    /\ pc[r] = "join"
    /\ \E w \in Windows :
       \E top_stream \in TopStreams(w) :
          /\ fetch[r][w].st = "pending"
          /\ fetch' = [fetch EXCEPT ![r][w] = top_for_time_frame(top_stream, TopLimit)]
    /\ UNCHANGED <<cache, pc, built, response, firstFill, firstSet>>
    /\ UNCHANGED <<playingVars, recentVars, shapeVars>>

\* lines 84-109: the join completes; an error is returned, or the Data is built
\* and DATA_CACHE.set(Data {..}).ok() is executed
DataJoin(r) ==
    /\ pc[r] = "join"
    /\ JoinReady(fetch[r])
    /\ IF IsSome(FirstError(fetch[r]))
       THEN /\ response' = Some([path |-> "failed", lostRace |-> FALSE,
                                 res |-> ErrResponse(Unwrap(FirstError(fetch[r])))])
            /\ pc' = [pc EXCEPT ![r] = "idle"]
            /\ ClearLocals(r)
            /\ UNCHANGED <<cache, firstFill, firstSet>>
       ELSE /\ built' = [built EXCEPT ![r] = Some(BuildData(fetch[r]))]
            /\ cache' = OnceLockSet(cache, BuildData(fetch[r]))
            /\ firstSet' = IF IsSome(firstSet) THEN firstSet
                           ELSE Some([req |-> r, fetch |-> fetch[r],
                                      data |-> BuildData(fetch[r])])
            /\ firstFill' = IF ~IsSome(cache) /\ IsSome(cache') THEN cache' ELSE firstFill
            /\ pc' = [pc EXCEPT ![r] = "readback"]
            /\ UNCHANGED <<response, fetch>>
    /\ UNCHANGED <<playingVars, recentVars, shapeVars>>

\* lines 111-115: DATA_CACHE.get().unwrap() is returned
DataReadBack(r) ==
    /\ pc[r] = "readback"
    /\ response' = Some([path |-> "filled", lostRace |-> (built[r] # cache),
                         res |-> ReadBackResponse(r)])
    /\ pc' = [pc EXCEPT ![r] = "idle"]
    /\ ClearLocals(r)
    /\ UNCHANGED <<cache, firstFill, firstSet>>
    /\ UNCHANGED <<playingVars, recentVars, shapeVars>>

Next ==
    \E r \in Requests :
        \/ DataHit(r)
        \/ DataMiss(r)
        \/ FetchDone(r)
        \/ DataJoin(r)
        \/ DataReadBack(r)
Spec == Init /\ [][Next]_vars

\* the body of the last GET / response, when it was a successful one
RespondedOk == IsSome(response) /\ Unwrap(response).res.status = "ok"
LastBody == Unwrap(Unwrap(response).res.body)

\* C1: once the cache holds a snapshot its value never changes, and every
\* successful GET / response carries the snapshot stored by the first fill,
\* whatever the later fetches returned.
C1_SnapshotNeverChanges ==
    /\ IsSome(firstFill) => cache = firstFill
    /\ IsSome(cache) => IsSome(firstFill)
    /\ RespondedOk => /\ IsSome(firstFill)
                      /\ LastBody = JsonData(Unwrap(firstFill))

\* a request that fetched other lists executed its set on the filled cache, and
\* the last response, served from the cache, carries the first snapshot
C1_Witness ==
    /\ RespondedOk /\ Unwrap(response).path = "cached"
    /\ \E r \in Requests : pc[r] = "readback" /\ built[r] # firstFill

\* C3: under every interleaving of requests that found the cache Empty, the
\* cache holds exactly the snapshot of the first request to execute the set,
\* later setters' snapshots are discarded, and the stored snapshot is the
\* complete result of that one request.
C3_FirstSetterWins ==
    /\ IsSome(cache) <=> IsSome(firstSet)
    /\ IsSome(firstSet) =>
          /\ cache = Some(Unwrap(firstSet).data)
          /\ \A w \in Windows : Unwrap(firstSet).fetch[w].st = "ok"
          /\ Unwrap(cache) = BuildData(Unwrap(firstSet).fetch)
    /\ \A r \in Requests : pc[r] = "readback" => IsSome(firstSet)

\* two requests found the cache Empty, fetched differing lists and both
\* executed the set
C3_Witness ==
    \E r1, r2 \in Requests :
        /\ r1 # r2
        /\ pc[r1] = "readback" /\ pc[r2] = "readback"
        /\ built[r1] # built[r2]
        /\ Unwrap(firstSet).req = r1
        /\ cache = built[r1]

\* C10: a handler at the read-back after its set attempt finds the cache
\* Filled, so the unwrap never panics, and the body it returns is the stored
\* snapshot, also when the request lost the set race.
C10_ReadBackFindsFilled ==
    /\ \A r \in Requests : pc[r] = "readback" => IsSome(cache)
    /\ (IsSome(response) /\ Unwrap(response).path = "filled") =>
          /\ Unwrap(response).res.status = "ok"
          /\ IsSome(cache)
          /\ LastBody = JsonData(Unwrap(cache))
          /\ Unwrap(response).res.cacheControl = Some(MaxAge(DataMaxAgeSecs))

\* a request that lost the set race has returned the winner's snapshot
C10_Witness ==
    /\ RespondedOk
    /\ Unwrap(response).path = "filled"
    /\ Unwrap(response).lostRace
    /\ LastBody = JsonData(Unwrap(firstSet).data)

\* the step is the handler of slot r running from its start: r is idle, no other
\* slot moves, and something of the GET / state changes
StartsHandler(r) ==
    /\ pc[r] = "idle"
    /\ \A o \in Requests \ {r} : pc'[o] = pc[o] /\ fetch'[o] = fetch[o]
    /\ dataVars' # dataVars

AllIssued(f) == \A w \in Windows : f[w].st \in {"pending", "ok", "err"}
SomeFailed(f) == \E w \in Windows : f[w].st = "err"

\* C2: a request whose fill has a failed fetch writes nothing to the cache and
\* returns the error, so an Empty cache stays Empty; no snapshot built from only
\* some of the windows is ever stored; and a request that finds the cache Empty
\* issues all three fetches, whatever failed before.
C2_FailedFillStoresNothing ==
    /\ [](/\ \A r \in Requests :
               /\ pc[r] = "readback" => \A w \in Windows : fetch[r][w].st = "ok"
               /\ pc[r] = "join" => AllIssued(fetch[r])
          /\ IsSome(cache) =>
               /\ IsSome(firstSet)
               /\ \A w \in Windows : Unwrap(firstSet).fetch[w].st = "ok"
               /\ Unwrap(cache) = BuildData(Unwrap(firstSet).fetch))
    /\ [][\A r \in Requests :
            /\ (pc[r] = "join" /\ pc'[r] # "join" /\ SomeFailed(fetch[r])) =>
                  /\ cache' = cache
                  /\ pc'[r] = "idle"
                  /\ IsSome(response') /\ Unwrap(response').res.status = "err"
            /\ (StartsHandler(r) /\ ~IsSome(cache)) =>
                  /\ pc'[r] = "join"
                  /\ \A w \in Windows : fetch'[r][w].st = "pending"
                  /\ cache' = cache]_vars

\* the last response is the error of a failed fill, the cache is still Empty,
\* and every slot, the one that failed included, runs a fill with all three
\* fetches issued
C2_Witness ==
    /\ IsSome(response) /\ Unwrap(response).path = "failed"
    /\ Unwrap(response).res.status = "err"
    /\ ~IsSome(cache)
    /\ \A r \in Requests : pc[r] = "join" /\ AllIssued(fetch[r])

\* C8: in the cache-fill path all three window fetches are started, and the
\* handler goes on to its response only after all three have completed, also
\* when one of them has failed.
C8_JoinWaitsForAll ==
    /\ [](\A r \in Requests : pc[r] = "join" => AllIssued(fetch[r]))
    /\ [][\A r \in Requests :
            /\ (pc[r] # "join" /\ pc'[r] = "join") =>
                  \A w \in Windows : fetch'[r][w].st = "pending"
            /\ (pc[r] = "join" /\ pc'[r] # "join") =>
                  \A w \in Windows : fetch[r][w].st \in {"ok", "err"}
            /\ (pc[r] # "idle" /\ pc'[r] = "idle") =>
                  /\ IsSome(response')
                  /\ Unwrap(response').path \in {"failed", "filled"}
                  /\ \A w \in Windows : fetch[r][w].st \in {"ok", "err"}]_vars

\* a fetch has failed and another is still running: the handler has not answered
C8_Witness ==
    \E r \in Requests :
        /\ pc[r] = "join"
        /\ \E w1, w2 \in Windows : fetch[r][w1].st = "err" /\ fetch[r][w2].st = "pending"
        /\ response = None

\* C9: a request that finds the cache Filled returns the stored snapshot with
\* max-age 86400, issues no upstream fetch and does not write to the cache;
\* fetches are issued only by requests that observed the cache Empty.
C9_HitIssuesNoFetch ==
    [][\A r \in Requests :
         /\ (StartsHandler(r) /\ IsSome(cache)) =>
               /\ response' = Some([path |-> "cached", lostRace |-> FALSE,
                                    res |-> OkResponse(JsonData(Unwrap(cache)),
                                                       Some(MaxAge(DataMaxAgeSecs)))])
               /\ cache' = cache
               /\ pc'[r] = "idle"
               /\ fetch'[r] = fetch[r]
         /\ (\E w \in Windows : fetch'[r][w].st = "pending" /\ fetch[r][w].st # "pending") =>
               ~IsSome(cache)]_vars

\* the cache is Filled, the last request was served from it, and no fetch runs
C9_Witness ==
    /\ IsSome(cache)
    /\ IsSome(response) /\ Unwrap(response).path = "cached"
    /\ Unwrap(response).res.cacheControl = Some(MaxAge(DataMaxAgeSecs))
    /\ \A r \in Requests : pc[r] = "idle" /\ \A w \in Windows : fetch[r][w].st = "none"

====
